---- MODULE Spec2Model ----
(***************************************************************************)
(* Model of the viggo driving companion: the alarm state machine of        *)
(* notificationUtils.ts, the speed-limit monitor of SpeedAlert.tsx, the    *)
(* proximity evaluation of LocationContext.tsx / ETADisplay.tsx and the    *)
(* SpeedCalculator of the speed-calculation utility.                       *)
(*                                                                         *)
(* Units: time in milliseconds; speeds delivered to the monitor in tenths  *)
(* of km/h (the estimator rounds to one decimal); speeds inside the        *)
(* estimator in thousandths of km/h; positions in metres along a line.     *)
(*                                                                         *)
(* Spec is the application (alarm, monitor, proximity, views), where the   *)
(* speed the estimator returns for a fix is drawn from Speeds. SpeedSpec   *)
(* is the SpeedCalculator alone, driven by fixes.                          *)
(***************************************************************************)
EXTENDS Integers, Sequences, FiniteSets, TLC

VARIABLES alarm, mon, loc, ui, now, hist, calc, emit, geo, nav, obs

vars == <<alarm, mon, loc, ui, now, hist, calc, emit, geo, nav, obs>>

(***************************************************************************)
(* Bounds of the model (not program constants).                            *)
(***************************************************************************)
MaxTicks == 2
MaxTimers == 1
MaxFixes == 3
MaxWindowFixes == 10
MaxPending == 1
MaxIntervals == 2
MaxStarts == 3

(***************************************************************************)
(* Program constants.                                                      *)
(***************************************************************************)
SPEED_LIMIT == 600
HYSTERESIS_LIMIT == (SPEED_LIMIT * 95) \div 100
THRESHOLD_TIME_MS == 2000
PROXIMITY_THROTTLE_MS == 2000
NOTIFICATION_RADIUS == 500

(***************************************************************************)
(* Environment of the model.                                               *)
(***************************************************************************)
NULL == -1
NAN == -9999
TickMs == 1500
StartTime == 10000
EndTime == StartTime + MaxTicks * TickMs
Speeds == {500, 580, 650, 660}
Distances == {499, 501}
Listener == "onAlarmState"

Last(s) == s[Len(s)]

Abs(x) == IF x < 0 THEN -x ELSE x

Min(x, y) == IF x < y THEN x ELSE y

Max(x, y) == IF x > y THEN x ELSE y

(***************************************************************************)
(* notificationUtils.ts: the alarm state machine.                          *)
(* The record a holds the module-level variables; a.notes is the sequence  *)
(* of values the registered listener received during the current handler.  *)
(***************************************************************************)
addAlarmListener(a, cb) == [a EXCEPT !.alarmListeners = Append(@, cb)]

RemoveAt(s, i) == [j \in 1..(Len(s) - 1) |-> IF j < i THEN s[j] ELSE s[j + 1]]

IndexOf(s, cb) ==
    IF \E i \in 1..Len(s) : s[i] = cb
    THEN CHOOSE i \in 1..Len(s) : s[i] = cb /\ \A j \in 1..(i - 1) : s[j] # cb
    ELSE 0

\* The removed callback is called no more: what it received is dropped.
removeAlarmListener(a, cb) ==
    LET i == IndexOf(a.alarmListeners, cb)
    IN  IF i # 0
        THEN [a EXCEPT !.alarmListeners = RemoveAt(@, i), !.received = <<>>]
        ELSE a

\* resetAlarmState that leaves the latch as it is.
resetAlarmState_KeepsLatch(a) == a

resetAlarmState(a) == [a EXCEPT !.isAlarmManuallyDisabled = FALSE]

\* A callback may call back into the module while it is being notified.
\* Reentrant is such a callback; a.reaction is the call it makes the next
\* time it is notified ("none": it only takes note of the value), and
\* a.reactionOk whether alarmAudio.play() starts during that call.
Reentrant == "reentrant"

RECURSIVE playAlarmSound(_, _), stopAlarmSound(_, _)

\* The callback cb is called with the value active; a.received keeps the
\* last value the subscribed callback was called with.
CallListener(a, cb, active) ==
    IF cb # Reentrant \/ a.reaction = "none"
    THEN [a EXCEPT !.notes = Append(@, active), !.received = <<active>>]
    ELSE IF a.reaction = "stop"
    THEN stopAlarmSound([a EXCEPT !.notes = Append(@, active),
                                  !.received = <<active>>,
                                  !.reaction = "none"], FALSE)
    ELSE IF a.reaction = "stopPermanently"
    THEN stopAlarmSound([a EXCEPT !.notes = Append(@, active),
                                  !.received = <<active>>,
                                  !.reaction = "none"], TRUE)
    ELSE IF a.reaction = "play"
    THEN playAlarmSound([a EXCEPT !.notes = Append(@, active),
                                  !.received = <<active>>,
                                  !.reaction = "none"], a.reactionOk)
    ELSE resetAlarmState([a EXCEPT !.notes = Append(@, active),
                                   !.received = <<active>>,
                                   !.reaction = "none"])

RECURSIVE NotifyFrom(_, _)
\* alarmListeners.forEach(cb => cb(isAlarmActive)) from the i-th callback on.
NotifyFrom(a, i) ==
    IF i > Len(a.alarmListeners)
    THEN a
    ELSE NotifyFrom(CallListener(a, a.alarmListeners[i], a.isAlarmActive),
                    i + 1)

\* notifyAlarmListeners that calls nobody.
notifyAlarmListeners_Silent(a) == a

notifyAlarmListeners(a) == NotifyFrom(a, 1)

\* The preferences. vibrationIntensity is in tenths, NAN stands for NaN;
\* storedMuted / storedIntensity are the localStorage items 'sound_muted' and
\* 'vibration_intensity': the empty sequence when absent, else a sequence of
\* one string.
\* parseFloat of the strings the model stores.
ParseFloat(str) ==
    CASE str = "0" -> 0
      [] str = "0.5" -> 5
      [] str = "1" -> 10
      [] str = "5" -> 50
      [] str = "-2" -> -20
      [] OTHER -> NAN

\* Number.prototype.toString of the values setVibrationIntensity can store.
NumberToString(x) ==
    CASE x = 0 -> "0"
      [] x = 5 -> "0.5"
      [] x = 10 -> "1"
      [] OTHER -> "NaN"

\* ok: whether alarmAudio.play() starts.
setSoundMuted(a, muted, ok) ==
    LET b == [a EXCEPT !.isSoundMuted = muted,
                       !.storedMuted = <<IF muted THEN "1" ELSE "0">>]
    IN  IF muted /\ b.alarmAudio /\ ~b.paused
        THEN [b EXCEPT !.paused = IF b.pauseThrows THEN @ ELSE TRUE]
        ELSE IF ~muted /\ b.isAlarmActive /\ b.alarmAudio
        THEN [b EXCEPT !.paused = @ /\ ~ok]
        ELSE b

\* Math.min and Math.max return NaN when an argument is NaN.
setVibrationIntensity(a, intensity) ==
    LET clamped == IF intensity = NAN THEN NAN ELSE Max(0, Min(10, intensity))
    IN  [a EXCEPT !.vibrationIntensity = clamped,
                  !.storedIntensity = <<NumberToString(clamped)>>]

loadNotificationPreferences(a) ==
    [a EXCEPT !.isSoundMuted =
                  IF a.storedMuted # <<>> THEN a.storedMuted[1] = "1" ELSE @,
              !.vibrationIntensity =
                  IF a.storedIntensity # <<>>
                  THEN ParseFloat(a.storedIntensity[1])
                  ELSE @]

\* ok: whether the browser lets alarmAudio.play() start (autoplay policy).
\* play() clears paused synchronously; the continuation of unlockAudio
\* (pause and rewind) runs later, as UnlockResume. Without the Audio
\* constructor (hasAudio false: undefined, or throwing) alarmAudio stays null.
\* The preferences are loaded first, on every call.
initAlarmAudio(a, ok) ==
    IF ~a.alarmAudio /\ a.hasAudio
    THEN [loadNotificationPreferences(a) EXCEPT !.alarmAudio = TRUE,
                                                !.paused = ~ok,
                                                !.unlockPending = ok]
    ELSE loadNotificationPreferences(a)

\* playAlarmSound, `if (!alarmAudio) initAlarmAudio()`.
ensureAlarmAudio(a, ok) == IF ~a.alarmAudio THEN initAlarmAudio(a, ok) ELSE a

\* playAlarmSound, the audio part: the delayed play() is scheduled with
\* setTimeout(..., 100) when the sound is not muted and the element is paused.
scheduleDelayedPlay(a) ==
    IF ~a.isSoundMuted /\ a.alarmAudio /\ a.paused
    THEN [a EXCEPT !.playTimers = @ + 1]
    ELSE a

\* playAlarmSound, the vibration part: navigator.vibrate and the setInterval;
\* when navigator.vibrate throws, the catch clears isVibrating and no
\* interval is set.
playVibrationPart(a) ==
    IF a.canVibrate /\ a.vibrationIntensity > 0
    THEN IF a.vibrateThrows
         THEN [a EXCEPT !.isVibrating = FALSE]
         ELSE [a EXCEPT !.isVibrating = TRUE,
                        !.vibrationInterval = TRUE,
                        !.liveIntervals = @ + 1]
    ELSE a

\* playAlarmSound without the isAlarmManuallyDisabled part of its guard.
playAlarmSound_IgnoresLatch(a, ok) ==
    IF a.isAlarmActive
    THEN a
    ELSE playVibrationPart(
             scheduleDelayedPlay(
                 ensureAlarmAudio(
                     notifyAlarmListeners([a EXCEPT !.isAlarmActive = TRUE]),
                     ok)))

\* playAlarmSound without the isAlarmActive part of its guard.
playAlarmSound_Retriggers(a, ok) ==
    IF a.isAlarmManuallyDisabled
    THEN a
    ELSE playVibrationPart(
             scheduleDelayedPlay(
                 ensureAlarmAudio(
                     notifyAlarmListeners([a EXCEPT !.isAlarmActive = TRUE]),
                     ok)))

\* playAlarmSound that gives up when the audio or the vibration API is
\* missing or throws.
playAlarmSound_NeedsDevices(a, ok) ==
    IF a.isAlarmActive \/ a.isAlarmManuallyDisabled
       \/ ~a.hasAudio \/ ~a.canVibrate \/ a.vibrateThrows
    THEN a
    ELSE playVibrationPart(
             scheduleDelayedPlay(
                 ensureAlarmAudio(
                     notifyAlarmListeners([a EXCEPT !.isAlarmActive = TRUE]),
                     ok)))

playAlarmSound(a, ok) ==
    IF a.isAlarmActive \/ a.isAlarmManuallyDisabled
    THEN a
    ELSE playVibrationPart(
             scheduleDelayedPlay(
                 ensureAlarmAudio(
                     notifyAlarmListeners([a EXCEPT !.isAlarmActive = TRUE]),
                     ok)))

\* stopAlarmSound, after the listeners were notified: pause and rewind the
\* audio (a throwing pause() is caught and leaves the element as it is),
\* clear the vibration interval, navigator.vibrate(0) (caught when it throws).
stopDevices(a) ==
    [a EXCEPT !.paused = IF a.alarmAudio /\ ~a.pauseThrows THEN TRUE ELSE @,
              !.vibrationInterval = FALSE,
              !.liveIntervals = IF a.vibrationInterval THEN @ - 1 ELSE @,
              !.isVibrating = FALSE]

\* stopAlarmSound that latches a permanent stop but leaves the alarm active.
stopAlarmSound_StaysActive(a, permanently) ==
    IF ~a.isAlarmActive
    THEN a
    ELSE stopDevices(
             notifyAlarmListeners(
                 [a EXCEPT !.isAlarmManuallyDisabled = (@ \/ permanently)]))

\* stopAlarmSound that latches a permanent stop on an idle alarm as well.
stopAlarmSound_LatchesWhenIdle(a, permanently) ==
    IF ~a.isAlarmActive
    THEN [a EXCEPT !.isAlarmManuallyDisabled = (@ \/ permanently)]
    ELSE stopDevices(
             notifyAlarmListeners(
                 [a EXCEPT !.isAlarmActive = FALSE,
                           !.isAlarmManuallyDisabled = (@ \/ permanently)]))

stopAlarmSound(a, permanently) ==
    IF ~a.isAlarmActive
    THEN a
    ELSE stopDevices(
             notifyAlarmListeners(
                 [a EXCEPT !.isAlarmActive = FALSE,
                           !.isAlarmManuallyDisabled = (@ \/ permanently)]))

\* The callback of the setTimeout(..., 100) of playAlarmSound.
delayedPlay(a, ok) ==
    [a EXCEPT !.playTimers = @ - 1,
              !.paused = IF a.alarmAudio THEN (@ /\ ~ok) ELSE @]

\* The continuation of unlockAudio after `await alarmAudio.play()`.
unlockAudio(a) ==
    [a EXCEPT !.paused = IF a.pauseThrows THEN @ ELSE TRUE,
              !.unlockPending = FALSE]

\* Call sites: the call is logged in the instrumentation fields plays / stops,
\* and by records which path turned the alarm on.
LogPlay(a, b, who) ==
    LET on == ~a.isAlarmActive /\ b.isAlarmActive
    IN  [b EXCEPT !.plays = @ + 1, !.by = IF on THEN who ELSE @]

Play(a, ok, who) == LogPlay(a, playAlarmSound(a, ok), who)

Stop(a, permanently) == [stopAlarmSound(a, permanently) EXCEPT !.stops = @ + 1]

showProximityNotification(a, ok) ==
    IF a.isAlarmManuallyDisabled THEN a ELSE Play(a, ok, "proximity")

\* Start of a handler: the instrumentation of the previous handler is dropped.
Begin(a) == [a EXCEPT !.notes = <<>>, !.plays = 0, !.stops = 0]

AlarmInit ==
    [isAlarmActive |-> FALSE,
     isAlarmManuallyDisabled |-> FALSE,
     isSoundMuted |-> FALSE,
     vibrationIntensity |-> 10,
     storedMuted |-> <<>>,
     storedIntensity |-> <<>>,
     canVibrate |-> TRUE,
     hasAudio |-> TRUE,
     vibrateThrows |-> FALSE,
     pauseThrows |-> FALSE,
     alarmAudio |-> FALSE,
     paused |-> TRUE,
     playTimers |-> 0,
     unlockPending |-> FALSE,
     vibrationInterval |-> FALSE,
     liveIntervals |-> 0,
     isVibrating |-> FALSE,
     alarmListeners |-> <<>>,
     received |-> <<>>,
     reaction |-> "none",
     reactionOk |-> FALSE,
     notes |-> <<>>,
     plays |-> 0,
     stops |-> 0,
     by |-> "none"]

(***************************************************************************)
(* SpeedAlert.tsx (latest revision): the speed-limit monitor.              *)
(* m holds the component's state and refs; monPlay / monStop log the calls *)
(* the effect made during the current handler.                             *)
(***************************************************************************)
MonInit ==
    [isOverSpeedLimit |-> FALSE,
     overspeedStart |-> NULL,
     alarmTriggeredRef |-> FALSE,
     monPlay |-> FALSE,
     monStop |-> FALSE]

BeginMon(m) == [m EXCEPT !.monPlay = FALSE, !.monStop = FALSE]

\* The effect without the hysteresis band: the alert is cleared as soon as the
\* speed is back at the limit.
SpeedAlertEffect_NoHysteresis(m, a, speed, t, ok) ==
    IF a.isAlarmManuallyDisabled
    THEN [m |-> [m EXCEPT !.isOverSpeedLimit = FALSE], a |-> a]
    ELSE IF speed > SPEED_LIMIT /\ ~m.alarmTriggeredRef
    THEN IF m.overspeedStart = NULL
         THEN [m |-> [m EXCEPT !.overspeedStart = t], a |-> a]
         ELSE IF t - m.overspeedStart > THRESHOLD_TIME_MS
              THEN [m |-> [m EXCEPT !.isOverSpeedLimit = TRUE,
                                    !.alarmTriggeredRef = TRUE,
                                    !.monPlay = TRUE],
                    a |-> Play(a, ok, "monitor")]
              ELSE [m |-> m, a |-> a]
    ELSE IF speed <= SPEED_LIMIT
    THEN IF m.isOverSpeedLimit
         THEN [m |-> [m EXCEPT !.overspeedStart = NULL,
                               !.isOverSpeedLimit = FALSE,
                               !.alarmTriggeredRef = FALSE,
                               !.monStop = TRUE],
               a |-> Stop(a, FALSE)]
         ELSE [m |-> [m EXCEPT !.overspeedStart = NULL], a |-> a]
    ELSE [m |-> m, a |-> a]

\* One run of the useEffect of SpeedAlert. speed is speedData.speed of the
\* render, t is Date.now().
SpeedAlertEffect(m, a, speed, t, ok) ==
    IF a.isAlarmManuallyDisabled
    THEN [m |-> [m EXCEPT !.isOverSpeedLimit = FALSE], a |-> a]
    ELSE IF speed > SPEED_LIMIT /\ ~m.alarmTriggeredRef
    THEN IF m.overspeedStart = NULL
         THEN [m |-> [m EXCEPT !.overspeedStart = t], a |-> a]
         ELSE IF t - m.overspeedStart > THRESHOLD_TIME_MS
              THEN [m |-> [m EXCEPT !.isOverSpeedLimit = TRUE,
                                    !.alarmTriggeredRef = TRUE,
                                    !.monPlay = TRUE],
                    a |-> Play(a, ok, "monitor")]
              ELSE [m |-> m, a |-> a]
    ELSE IF speed <= HYSTERESIS_LIMIT
    THEN IF m.isOverSpeedLimit
         THEN [m |-> [m EXCEPT !.overspeedStart = NULL,
                               !.isOverSpeedLimit = FALSE,
                               !.alarmTriggeredRef = FALSE,
                               !.monStop = TRUE],
               a |-> Stop(a, FALSE)]
         ELSE [m |-> [m EXCEPT !.overspeedStart = NULL], a |-> a]
    ELSE [m |-> m, a |-> a]

\* React re-runs the effect while one of its dependencies
\* [speedData.speed, isOverSpeedLimit] differs from the previous render.
EffectAgain(r, over, speed, t, ok) ==
    IF r.m.isOverSpeedLimit # over
    THEN SpeedAlertEffect(r.m, r.a, speed, t, ok)
    ELSE r

\* r1 is the outcome of a run of the effect in a render where
\* isOverSpeedLimit was over: the re-runs that follow it.
EffectSettle(r1, over, speed, t, ok) ==
    EffectAgain(EffectAgain(r1, over, speed, t, ok),
                r1.m.isOverSpeedLimit, speed, t, ok)

FlushSpeedAlert(m, a, changed, speed, t, ok) ==
    IF ~changed
    THEN [m |-> m, a |-> a]
    ELSE EffectSettle(SpeedAlertEffect(m, a, speed, t, ok),
                      m.isOverSpeedLimit, speed, t, ok)

\* handleStopAlarm of SpeedAlert (the STOP ALARM button of the monitor).
handleStopAlarm(m, a) ==
    [m |-> [m EXCEPT !.isOverSpeedLimit = FALSE, !.alarmTriggeredRef = FALSE],
     a |-> Stop(a, TRUE)]

(***************************************************************************)
(* locationUtils / LocationContext.tsx (latest revision): proximity.       *)
(* Positions are metres along a line through the college.                  *)
(***************************************************************************)
calculateDistance(location1, location2) == Abs(location2 - location1)

\* The haversine formula of calculateDistance, in fixed point: angles in
\* whole degrees, sines and cosines in thousandths, a location a record
\* [latitude, longitude] in even degrees (so that half a difference is a whole
\* degree). SineTable[d + 1] is sin(d degrees) for d in 0..90.
SineTable ==
    <<
      0, 17, 35, 52, 70, 87, 105, 122, 139, 156, 174, 191, 208,
      225, 242, 259, 276, 292, 309, 326, 342, 358, 375, 391, 407, 423,
      438, 454, 469, 485, 500, 515, 530, 545, 559, 574, 588, 602, 616,
      629, 643, 656, 669, 682, 695, 707, 719, 731, 743, 755, 766, 777,
      788, 799, 809, 819, 829, 839, 848, 857, 866, 875, 883, 891, 899,
      906, 914, 921, 927, 934, 940, 946, 951, 956, 961, 966, 970, 974,
      978, 982, 985, 988, 990, 993, 995, 996, 998, 999, 999, 1000, 1000 >>

\* Math.sin, odd and periodic.
Sin(degrees) ==
    LET m == degrees % 360
    IN  IF m <= 90 THEN SineTable[m + 1]
        ELSE IF m <= 180 THEN SineTable[181 - m]
        ELSE IF m <= 270 THEN -SineTable[m - 179]
        ELSE -SineTable[361 - m]

\* The product of two numbers in thousandths, rounded toward zero: like the
\* floating-point product, its magnitude does not depend on the signs.
Times(x, y) ==
    IF (x < 0) = (y < 0)
    THEN (Abs(x) * Abs(y)) \div 1000
    ELSE -((Abs(x) * Abs(y)) \div 1000)

\* Math.sqrt of a number in thousandths.
Sqrt(x) == CHOOSE r \in 0..1000 : r * r <= x * 1000 /\ (r + 1) * (r + 1) > x * 1000

\* Math.atan2(y, x) for y, x >= 0, in whole degrees (rounded down).
Atan2(y, x) ==
    CHOOSE t \in 0..90 :
        /\ Sin(t) * x <= Sin(t + 90) * y
        /\ t < 90 => Sin(t + 1) * x > Sin(t + 91) * y

\* R * Math.PI / 180 for R = 6371e3: metres per degree of arc.
METRES_PER_DEGREE == 111195

\* The formula with the longitude of the first location taken as 0.
Haversine_FromMeridian(location1, location2) ==
    LET sinLat == Sin((location2.latitude - location1.latitude) \div 2)
        sinLon == Sin(location2.longitude \div 2)
        a == Times(sinLat, sinLat)
             + Times(Times(Times(Sin(location1.latitude + 90),
                                 Sin(location2.latitude + 90)),
                           sinLon), sinLon)
        c == 2 * Atan2(Sqrt(a), Sqrt(1000 - a))
    IN  METRES_PER_DEGREE * c

Haversine(location1, location2) ==
    LET sinLat == Sin((location2.latitude - location1.latitude) \div 2)
        sinLon == Sin((location2.longitude - location1.longitude) \div 2)
        a == Times(sinLat, sinLat)
             + Times(Times(Times(Sin(location1.latitude + 90),
                                 Sin(location2.latitude + 90)),
                           sinLon), sinLon)
        c == 2 * Atan2(Sqrt(a), Sqrt(1000 - a))
    IN  METRES_PER_DEGREE * c

\* isWithinRadius with the boundary left out.
isWithinRadius_Exclusive(userLocation, collegeLocation, radius) ==
    calculateDistance(userLocation, collegeLocation) < radius

isWithinRadius(userLocation, collegeLocation, radius) ==
    calculateDistance(userLocation, collegeLocation) <= radius

CollegeLocation == 0

\* hasLocation: currentLocation is not null; locationError: locationError is
\* not null.
\* capNear / capShown: isNearCollege and hasShownProximityAlert as the
\* updateLocation closure of the registered watch callback sees them, that is
\* as they were in the render whose startLocationTracking registered the watch.
\* watchId: the watchId state is not null; watches: the watches registered
\* with navigator.geolocation and not cleared; pendingStarts: the calls of
\* startLocationTracking that await getLocationPermission(); starts: the
\* calls of startLocationTracking that have registered a watch.
LocInit ==
    [isNearCollege |-> FALSE,
     hasShownProximityAlert |-> FALSE,
     lastProximityCheck |-> 0,
     isTracking |-> FALSE,
     capNear |-> FALSE,
     capShown |-> FALSE,
     speed |-> 0,
     hasLocation |-> FALSE,
     locationError |-> FALSE,
     watchId |-> FALSE,
     watches |-> 0,
     pendingStarts |-> 0,
     starts |-> 0]

\* updateLocation that does not look at isAlarmManuallyDisabled.
updateLocation_IgnoresLatch(l, a, location, calculatedSpeed, t, ok) ==
    LET l1 == [l EXCEPT !.locationError = FALSE,
                        !.hasLocation = TRUE,
                        !.speed = calculatedSpeed]
    IN  IF t - l1.lastProximityCheck > PROXIMITY_THROTTLE_MS
        THEN LET l2 == [l1 EXCEPT !.lastProximityCheck = t]
                 nearCollege == isWithinRadius(location, CollegeLocation,
                                               NOTIFICATION_RADIUS)
             IN  IF nearCollege /\ ~l2.capNear
                 THEN IF ~l2.capShown
                      THEN [l |-> [l2 EXCEPT !.isNearCollege = TRUE,
                                             !.hasShownProximityAlert = TRUE],
                            a |-> showProximityNotification(a, ok)]
                      ELSE [l |-> [l2 EXCEPT !.isNearCollege = TRUE], a |-> a]
                 ELSE IF ~nearCollege /\ l2.capNear
                      THEN [l |-> [l2 EXCEPT !.isNearCollege = FALSE], a |-> a]
                      ELSE [l |-> l2, a |-> a]
        ELSE [l |-> l1, a |-> a]

\* updateLocation called by the watch callback: location is the fix position,
\* calculatedSpeed what speedCalculator.addLocation returned, t is Date.now().
updateLocation(l, a, location, calculatedSpeed, t, ok) ==
    LET l1 == [l EXCEPT !.locationError = FALSE,
                        !.hasLocation = TRUE,
                        !.speed = calculatedSpeed]
    IN  IF t - l1.lastProximityCheck > PROXIMITY_THROTTLE_MS
        THEN LET l2 == [l1 EXCEPT !.lastProximityCheck = t]
                 nearCollege == isWithinRadius(location, CollegeLocation,
                                               NOTIFICATION_RADIUS)
             IN  IF nearCollege /\ ~l2.capNear
                 THEN IF ~l2.capShown /\ ~a.isAlarmManuallyDisabled
                      THEN [l |-> [l2 EXCEPT !.isNearCollege = TRUE,
                                             !.hasShownProximityAlert = TRUE],
                            a |-> showProximityNotification(a, ok)]
                      ELSE [l |-> [l2 EXCEPT !.isNearCollege = TRUE], a |-> a]
                 ELSE IF ~nearCollege /\ l2.capNear
                      THEN [l |-> [l2 EXCEPT !.isNearCollege = FALSE], a |-> a]
                      ELSE [l |-> l2, a |-> a]
        ELSE [l |-> l1, a |-> a]

\* startLocationTracking up to `await getLocationPermission()`.
beginLocationTracking(l) ==
    IF l.isTracking THEN l ELSE [l EXCEPT !.pendingStarts = @ + 1]

\* startLocationTracking after the await: isTracking is not read again.
resumeLocationTracking(l, granted) ==
    IF ~granted
    THEN [l EXCEPT !.pendingStarts = @ - 1, !.locationError = TRUE]
    ELSE [l EXCEPT !.pendingStarts = @ - 1,
                   !.watches = @ + 1,
                   !.watchId = TRUE,
                   !.isTracking = TRUE,
                   !.capNear = l.isNearCollege,
                   !.capShown = l.hasShownProximityAlert]

\* A call of startLocationTracking that is granted the permission and
\* completes before any other handler runs.
startLocationTracking(l) ==
    IF l.isTracking
    THEN l
    ELSE [l EXCEPT !.isTracking = TRUE,
                   !.watches = @ + 1,
                   !.watchId = TRUE,
                   !.capNear = l.isNearCollege,
                   !.capShown = l.hasShownProximityAlert]

stopLocationTracking(l) ==
    IF l.isTracking /\ l.watchId
    THEN [l EXCEPT !.isTracking = FALSE, !.watchId = FALSE, !.watches = @ - 1]
    ELSE l

(***************************************************************************)
(* The SpeedCalculator class (speed-calculation utility).                  *)
(* A fix is a record [pos, timestamp, accuracy, speed]: pos in metres,     *)
(* timestamp in ms (0: missing), accuracy in metres (0: missing), speed    *)
(* the sensor speed in thousandths of km/h (NULL: undefined).              *)
(* c holds the fields of the instance; calibrationFactor is in thousandths.*)
(* Weights are kept in tenths (recency) and thousandths (combined), which  *)
(* is exact for timestamps that are multiples of 500 ms; quotients are     *)
(* truncated to a thousandth of a km/h.                                    *)
(***************************************************************************)
WINDOW_SIZE == 8
MAX_ACCELERATION == 5
DEFAULT_TIME_WINDOW_MS == 5000
MIN_SEGMENT_MS == 150
MAX_SENSOR_SPEED == 200000

CalcInit ==
    [locationHistory |-> <<>>,
     speedHistory |-> <<>>,
     lastCalculatedSpeed |-> 0,
     lastTimestamp |-> 0,
     calibrationFactor |-> 1000]

\* A window that drops the arriving entry when it is full.
Push_DropsNewest(h, x) ==
    IF Len(h) + 1 > WINDOW_SIZE THEN h ELSE Append(h, x)

\* push, then shift when the window is exceeded.
Push(h, x) ==
    IF Len(h) + 1 > WINDOW_SIZE THEN Tail(Append(h, x)) ELSE Append(h, x)

\* Math.round(x * 10) / 10 for x >= 0, on thousandths.
RoundToTenth(x) == ((x + 50) \div 100) * 100

\* Math.min(1, 10 / accuracy), in thousandths.
AccuracyFactor(accuracy) == Min(1000, 10000 \div accuracy)

\* dateNow is what Date.now() returns during the call.
applyPhysicsConstraints(c, rawSpeed, dateNow) ==
    IF c.lastTimestamp = 0
    THEN rawSpeed
    ELSE LET currentTime ==
                 IF Len(c.locationHistory) > 0
                    /\ Last(c.locationHistory).timestamp # 0
                 THEN Last(c.locationHistory).timestamp
                 ELSE dateNow
             timeDiff == currentTime - c.lastTimestamp
             maxSpeedChange == MAX_ACCELERATION * timeDiff
         IN  IF timeDiff <= 0
             THEN c.lastCalculatedSpeed
             ELSE IF Abs(rawSpeed - c.lastCalculatedSpeed) > maxSpeedChange
                  THEN IF rawSpeed > c.lastCalculatedSpeed
                       THEN c.lastCalculatedSpeed + maxSpeedChange
                       ELSE c.lastCalculatedSpeed - maxSpeedChange
                  ELSE rawSpeed

\* calculateSpeedBetweenPoints on the signed displacement.
calculateSpeedBetweenPoints_Signed(start, end) ==
    IF end.timestamp - start.timestamp <= 0
    THEN 0
    ELSE ((end.pos - start.pos) * 3600000) \div (end.timestamp - start.timestamp)

\* km/h (in thousandths) between two fixes: metres / ms * 3600.
calculateSpeedBetweenPoints(start, end) ==
    IF end.timestamp - start.timestamp <= 0
    THEN 0
    ELSE (Abs(end.pos - start.pos) * 3600000) \div (end.timestamp - start.timestamp)

\* The segments the loop of calculateCurrentSpeed does not skip.
Segments(h) ==
    {i \in 1..(Len(h) - 1) :
        /\ h[i].timestamp # 0
        /\ h[i + 1].timestamp # 0
        /\ h[i + 1].timestamp - h[i].timestamp >= MIN_SEGMENT_MS}

\* accuracyFactor of segment i, in thousandths.
SegmentAccuracy(h, i) ==
    AccuracyFactor(Max(IF h[i].accuracy # 0 THEN h[i].accuracy ELSE 100,
                       IF h[i + 1].accuracy # 0 THEN h[i + 1].accuracy ELSE 100))

\* recencyWeight of segment i, in tenths.
RecencyWeight(h, i, currentTime) ==
    Max(1, Min(10, 10 - (currentTime - h[i + 1].timestamp)
                            \div (DEFAULT_TIME_WINDOW_MS \div 10)))

\* weight of segment i, in thousandths.
SegmentWeight(h, i, currentTime) ==
    (RecencyWeight(h, i, currentTime) * RecencyWeight(h, i, currentTime)
     * (6000 + 4 * SegmentAccuracy(h, i))) \div 1000

RECURSIVE SumOver(_, _, _, _)
\* The sum over the segments of S of: weight ("w"), weight * speed ("ws"),
\* accuracy factor ("acc").
SumOver(S, h, currentTime, what) ==
    IF S = {}
    THEN 0
    ELSE LET i == CHOOSE j \in S : TRUE
         IN  (CASE what = "w" -> SegmentWeight(h, i, currentTime)
                [] what = "ws" -> SegmentWeight(h, i, currentTime)
                                  * calculateSpeedBetweenPoints(h[i], h[i + 1])
                [] OTHER -> SegmentAccuracy(h, i))
             + SumOver(S \ {i}, h, currentTime, what)

\* The tail of calculateCurrentSpeed, once the constrained speed is known.
EmitCalculated(c, speed, currentTime, avgConfidence) ==
    [c |-> [c EXCEPT
               !.speedHistory = Push(@, [speed |-> speed,
                                         timestamp |-> currentTime,
                                         confidence |-> avgConfidence]),
               !.lastCalculatedSpeed =
                   RoundToTenth((speed * c.calibrationFactor) \div 1000),
               !.lastTimestamp = currentTime],
     ret |-> RoundToTenth((speed * c.calibrationFactor) \div 1000)]

calculateCurrentSpeed(c, dateNow) ==
    IF Len(c.locationHistory) < 2
    THEN [c |-> c, ret |-> 0]
    ELSE LET h == c.locationHistory
             currentTime == IF Last(h).timestamp # 0 THEN Last(h).timestamp
                            ELSE dateNow
             totalWeight == SumOver(Segments(h), h, currentTime, "w")
         IN  IF totalWeight > 0
             THEN EmitCalculated(
                      c,
                      applyPhysicsConstraints(
                          c,
                          SumOver(Segments(h), h, currentTime, "ws") \div totalWeight,
                          dateNow),
                      currentTime,
                      SumOver(Segments(h), h, currentTime, "acc") \div (Len(h) - 1))
             ELSE [c |-> c, ret |-> c.lastCalculatedSpeed]

\* The direct-sensor path of addLocation: the sample is stored.
PushSample(c, location) ==
    [c EXCEPT !.speedHistory =
        Push(@, [speed |-> location.speed,
                 timestamp |-> location.timestamp,
                 confidence |-> IF location.accuracy # 0
                                THEN AccuracyFactor(location.accuracy)
                                ELSE 700])]

\* The direct-sensor path, once the sample is stored: blended and
\* constrained if there is history, else the sensor speed as it is.
DirectSpeed(c, location, dateNow) ==
    IF c.lastCalculatedSpeed > 0 /\ Len(c.speedHistory) > 1
    THEN applyPhysicsConstraints(
             c, (7 * location.speed + 3 * c.lastCalculatedSpeed) \div 10, dateNow)
    ELSE location.speed

EmitDirect(c, speed, location) ==
    [c |-> [c EXCEPT !.lastCalculatedSpeed = speed,
                     !.lastTimestamp = location.timestamp],
     ret |-> RoundToTenth(speed)]

DirectPath(c, location, dateNow) ==
    EmitDirect(c, DirectSpeed(c, location, dateNow), location)

\* addLocation without the validation of the fix.
addLocation_NoValidation(c, location, dateNow) ==
    IF location.speed # NULL /\ location.speed >= 0
       /\ location.speed < MAX_SENSOR_SPEED
    THEN DirectPath(PushSample(c, location), location, dateNow)
    ELSE calculateCurrentSpeed(
             [c EXCEPT !.locationHistory = Push(@, location)], dateNow)

addLocation(c, location, dateNow) ==
    IF location.timestamp = 0 \/ location.pos = NULL
    THEN [c |-> c, ret |-> c.lastCalculatedSpeed]
    ELSE IF location.speed # NULL /\ location.speed >= 0
            /\ location.speed < MAX_SENSOR_SPEED
    THEN DirectPath(PushSample(c, location), location, dateNow)
    ELSE calculateCurrentSpeed(
             [c EXCEPT !.locationHistory = Push(@, location)], dateNow)

\* setCalibrationFactor that accepts the ends of the band.
setCalibrationFactor_Inclusive(c, factor) ==
    IF factor >= 500 /\ factor <= 1500
    THEN [c EXCEPT !.calibrationFactor = factor]
    ELSE c

setCalibrationFactor(c, factor) ==
    IF factor > 500 /\ factor < 1500
    THEN [c EXCEPT !.calibrationFactor = factor]
    ELSE c

getSpeed(c) == c.lastCalculatedSpeed

RECURSIVE SumConfidence(_)
SumConfidence(samples) ==
    IF samples = <<>>
    THEN 0
    ELSE samples[1].confidence + SumConfidence(Tail(samples))

\* The mean confidence of the retained speed samples, in thousandths.
getConfidence(c) ==
    IF Len(c.speedHistory) = 0
    THEN 0
    ELSE SumConfidence(c.speedHistory) \div Len(c.speedHistory)

\* reset that leaves locationHistory as it is.
reset_KeepsLocations(c) ==
    [c EXCEPT !.speedHistory = <<>>,
              !.lastCalculatedSpeed = 0,
              !.lastTimestamp = 0]

reset(c) ==
    [c EXCEPT !.locationHistory = <<>>,
              !.speedHistory = <<>>,
              !.lastCalculatedSpeed = 0,
              !.lastTimestamp = 0]

(***************************************************************************)
(* ETADisplay.tsx (latest revision) and StopAlarmButton.tsx.               *)
(***************************************************************************)
\* pageMounted: MapPage is mounted; isInitializing: its state of that name;
\* viewMounted: its main view (with ETADisplay, StopAlarmButton and
\* SpeedAlert) is rendered; visible, soundEnabled: the state of
\* StopAlarmButton and of ETADisplay.
UiInit ==
    [pageMounted |-> FALSE,
     isInitializing |-> TRUE,
     viewMounted |-> FALSE,
     visible |-> FALSE,
     soundEnabled |-> TRUE]

\* The proximity useEffect of ETADisplay.
ETADisplayEffect(a, isNearCollege, soundEnabled, ok) ==
    IF isNearCollege /\ soundEnabled
    THEN Play(a, ok, "eta")
    ELSE Stop(a, FALSE)

toggleSound(u, a, isNearCollege, ok) ==
    [u |-> [u EXCEPT !.soundEnabled = ~@],
     a |-> IF u.soundEnabled
           THEN Stop(a, FALSE)
           ELSE IF isNearCollege THEN Play(a, ok, "toggle") ELSE a]

\* handleStop of StopAlarmButton.
handleStop(a) == Stop(a, FALSE)

\* onAlarmState of StopAlarmButton: setVisible(active) for every value received.
onAlarmState(u, a) ==
    IF Len(a.notes) > 0 THEN [u EXCEPT !.visible = Last(a.notes)] ELSE u

(***************************************************************************)
(* History of the run, for the properties.                                 *)
(*   permStop: "none", or how the alarm was when the STOP ALARM button of  *)
(*     the monitor was last pressed since the last resetAlarmState():      *)
(*     "sounding" once a press found it sounding, else "idle";             *)
(*   lowSinceStart: a sample <= 0.95*LIMIT reached the mounted monitor     *)
(*     since overspeedStart was set;                                       *)
(*   heldSince: NULL, or the time of the first sample of the current run   *)
(*     of samples > LIMIT delivered to the mounted monitor, a run that     *)
(*     began with the monitor untriggered and the alarm idle and enabled,  *)
(*     and during which the user touched nothing;                          *)
(*   heldTrig: how many times the monitor called playAlarmSound during     *)
(*     that run (counted up to 2);                                         *)
(*   proxTrigs: how many times a location fix made the near-destination    *)
(*     alarm sound (showProximityNotification or the proximity effect of   *)
(*     ETADisplay) since tracking was last started or stopped and since    *)
(*     the last resetAlarmState() (counted up to 2).                       *)
(***************************************************************************)
HistInit ==
    [permStop |-> "none", lowSinceStart |-> FALSE,
     heldSince |-> NULL, heldTrig |-> 0, proxTrigs |-> 0]

LowSinceStart(h, m0, m1, sample) ==
    IF m1.overspeedStart = NULL \/ m1.overspeedStart # m0.overspeedStart
    THEN FALSE
    ELSE h.lowSinceStart \/ (sample # NULL /\ sample <= HYSTERESIS_LIMIT)

\* The handlers that leave a run of held speed alone.
Quiet == {"sample", "track", "timer", "tick"}

Held(h, m0, a0, m1, mounted, sample, op, t) ==
    IF op \notin Quiet \/ ~mounted \/ (sample # NULL /\ sample <= SPEED_LIMIT)
    THEN [since |-> NULL, trig |-> 0]
    ELSE IF sample = NULL
    THEN [since |-> h.heldSince, trig |-> h.heldTrig]
    ELSE IF h.heldSince # NULL
    THEN [since |-> h.heldSince,
          trig |-> IF m1.monPlay /\ h.heldTrig < 2
                   THEN h.heldTrig + 1 ELSE h.heldTrig]
    ELSE IF ~m0.alarmTriggeredRef /\ ~a0.isAlarmActive
            /\ ~a0.isAlarmManuallyDisabled
    THEN [since |-> t, trig |-> IF m1.monPlay THEN 1 ELSE 0]
    ELSE [since |-> NULL, trig |-> 0]

ProxTrigs(h, a0, a1, op) ==
    IF op \in {"track", "reset", "resetDisabled", "pageMount"}
    THEN 0
    ELSE IF op = "sample" /\ ~a0.isAlarmActive /\ a1.isAlarmActive
            /\ a1.by \in {"proximity", "eta"} /\ h.proxTrigs < 2
    THEN h.proxTrigs + 1
    ELSE h.proxTrigs

History(h, m0, a0, r, permStop, sample, op, held) ==
    [permStop |-> permStop,
     lowSinceStart |-> LowSinceStart(h, m0, r.m, sample),
     heldSince |-> held.since,
     heldTrig |-> held.trig,
     proxTrigs |-> ProxTrigs(h, a0, r.a, op)]

(***************************************************************************)
(* The handlers. Every handler ends with React's flush of the effects whose *)
(* dependencies changed (ETADisplay before SpeedAlert, in tree order) and   *)
(* leaves in alarm.notes what the listener received meanwhile.              *)
(* A handler's outcome is a record [l, u, m, a] of the new loc, ui, mon and *)
(* alarm.                                                                   *)
(***************************************************************************)
Outcome(l, u, m, a) == [l |-> l, u |-> u, m |-> m, a |-> a]

\* The listener of StopAlarmButton has seen the notifications of r.a.
Rendered(l, u, r) == Outcome(l, onAlarmState(u, r.a), r.m, r.a)

\* The effects of a re-render of the mounted view. r is the outcome of the
\* handler proper, l0 / u0 / m0 the state of the previous render.
Flush(l0, u0, m0, r, t, ok) ==
    Rendered(r.l, r.u,
        FlushSpeedAlert(r.m,
            IF r.l.isNearCollege # l0.isNearCollege
               \/ r.u.soundEnabled # u0.soundEnabled
            THEN ETADisplayEffect(r.a, r.l.isNearCollege, r.u.soundEnabled, ok)
            ELSE r.a,
            r.l.speed # l0.speed
            \/ r.m.isOverSpeedLimit # m0.isOverSpeedLimit,
            r.l.speed, t, ok))

\* MapPage renders its main view unless it is initializing, there is a
\* location error, or tracking is on and no location has arrived yet.
ViewShown(l, u) ==
    /\ u.pageMounted
    /\ ~u.isInitializing
    /\ ~l.locationError
    /\ (l.hasLocation \/ ~l.isTracking)

\* The mount effects of ETADisplay (initAlarmAudio, then the proximity
\* effect) and of StopAlarmButton (addAlarmListener).
MountEffects(a, isNearCollege, ok) ==
    addAlarmListener(
        ETADisplayEffect(initAlarmAudio(a, ok), isNearCollege, TRUE, ok),
        Listener)

\* The first render: the mount effect of StopAlarmButton ends with
\* setVisible(isAlarmActive), SpeedAlert starts from its initial state.
Mounted(l, u, a) ==
    Outcome(l,
            [u EXCEPT !.viewMounted = TRUE,
                      !.soundEnabled = TRUE,
                      !.visible = a.isAlarmActive],
            MonInit, a)

\* The mount effect of SpeedAlert and its re-runs.
MountSpeedAlert(r, speed, t, ok) ==
    Rendered(r.l, r.u,
             EffectSettle(SpeedAlertEffect(r.m, r.a, speed, t, ok),
                          r.m.isOverSpeedLimit, speed, t, ok))

\* The main view appears: the mount effects of ETADisplay, StopAlarmButton
\* and SpeedAlert run in this order.
Mount(r, t, ok) ==
    MountSpeedAlert(Mounted(r.l, r.u, MountEffects(r.a, r.l.isNearCollege, ok)),
                    r.l.speed, t, ok)

\* The main view disappears: ETADisplay's cleanup stops the alarm, then
\* StopAlarmButton's removes its listener.
Unmount(r) ==
    Outcome(r.l,
            [r.u EXCEPT !.viewMounted = FALSE, !.visible = FALSE],
            MonInit,
            removeAlarmListener(Stop(r.a, FALSE), Listener))

\* The render that follows a handler.
Render(l0, u0, m0, r, t, ok) ==
    IF ViewShown(r.l, r.u)
    THEN IF u0.viewMounted THEN Flush(l0, u0, m0, r, t, ok) ELSE Mount(r, t, ok)
    ELSE IF u0.viewMounted THEN Unmount(r) ELSE r

\* r: the outcome of the handler; permStop: the new hist.permStop; sample:
\* the speed sample the handler delivered to the mounted monitor, or NULL.
Commit(r, permStop, sample, op) ==
    /\ r.a.playTimers <= MaxTimers
    /\ loc' = r.l
    /\ ui' = r.u
    /\ mon' = r.m
    /\ alarm' = r.a
    /\ hist' = History(hist, mon, alarm, r, permStop, sample, op,
                       Held(hist, mon, alarm, r.m, r.u.viewMounted, sample, op,
                            now))
    /\ obs' = op
    /\ UNCHANGED <<now, calc, emit, geo, nav>>

\* MapPage mount effect: initAlarmAudio(); resetAlarmState(); and the
\* setTimeout that ends the initialization.
MapPageMount(ok) ==
    /\ ~ui.pageMounted
    /\ Commit(Outcome(loc, [ui EXCEPT !.pageMounted = TRUE], BeginMon(mon),
                      resetAlarmState(initAlarmAudio(Begin(alarm), ok))),
              "none", NULL, "pageMount")

\* The setTimeout(..., 2000) callback of the MapPage mount effect:
\* setIsInitializing(false). Nothing reads the time of the page mount, so the
\* callback is not tied to now.
InitDone(ok) ==
    /\ ui.pageMounted
    /\ ui.isInitializing
    /\ Commit(Render(loc, ui, mon,
                     Outcome(loc, [ui EXCEPT !.isInitializing = FALSE],
                             BeginMon(mon), Begin(alarm)),
                     now, ok),
              hist.permStop, NULL, "viewMount")

\* The error callback of the watch: setLocationError(...).
LocationError(ok) ==
    /\ loc.isTracking
    /\ ~loc.locationError
    /\ Commit(Render(loc, ui, mon,
                     Outcome([loc EXCEPT !.locationError = TRUE], ui,
                             BeginMon(mon), Begin(alarm)),
                     now, ok),
              hist.permStop, NULL, "unmount")

StartTracking(ok) ==
    /\ ui.pageMounted
    /\ ~loc.isTracking
    /\ Commit(Render(loc, ui, mon,
                     Outcome(startLocationTracking(loc), ui, BeginMon(mon),
                             Begin(alarm)),
                     now, ok),
              hist.permStop, NULL, "track")

StopTracking(ok) ==
    /\ loc.isTracking
    /\ Commit(Render(loc, ui, mon,
                     Outcome(stopLocationTracking(loc), ui, BeginMon(mon),
                             Begin(alarm)),
                     now, ok),
              hist.permStop, NULL, "track")

\* An outcome [l, a] or [m, a] or [u, a] of a handler proper, completed.
WithLoc(r, u, m) == Outcome(r.l, u, m, r.a)
WithMon(r, l, u) == Outcome(l, u, r.m, r.a)
WithUi(r, l, m) == Outcome(l, r.u, m, r.a)

\* The watch callback: a fix at distance d from the college, for which the
\* estimator returned speed s.
UpdateLocation(d, s, ok) ==
    /\ loc.isTracking
    /\ Commit(Render(loc, ui, mon,
                     WithLoc(updateLocation(loc, Begin(alarm), d, s, now, ok),
                             ui, BeginMon(mon)),
                     now, ok),
              hist.permStop, IF ~ui.isInitializing THEN s ELSE NULL, "sample")

Tick ==
    /\ now + TickMs <= EndTime
    /\ alarm.playTimers = 0
    /\ ~alarm.unlockPending
    /\ now' = now + TickMs
    /\ alarm' = Begin(alarm)
    /\ mon' = BeginMon(mon)
    /\ obs' = "tick"
    /\ UNCHANGED <<loc, ui, hist, calc, emit, geo, nav>>

HandleStop(ok) ==
    /\ ui.viewMounted
    /\ ui.visible
    /\ Commit(Flush(loc, ui, mon,
                    Outcome(loc, ui, BeginMon(mon), handleStop(Begin(alarm))),
                    now, ok),
              hist.permStop, NULL, "user")

HandleStopAlarm(ok) ==
    /\ ui.viewMounted
    /\ mon.isOverSpeedLimit
    /\ Commit(Flush(loc, ui, mon,
                    WithMon(handleStopAlarm(BeginMon(mon), Begin(alarm)), loc, ui),
                    now, ok),
              IF alarm.isAlarmActive \/ hist.permStop = "sounding"
              THEN "sounding" ELSE "idle",
              NULL, "user")

ToggleSound(ok) ==
    /\ ui.viewMounted
    /\ Commit(Flush(loc, ui, mon,
                    WithUi(toggleSound(ui, Begin(alarm), loc.isNearCollege, ok),
                           loc, BeginMon(mon)),
                    now, ok),
              hist.permStop, NULL, "user")

\* handleNavigateToCollege / handleToggleNavigation of NavigationBar:
\* startNavigation(...); resetAlarmState().
NavigateToCollege ==
    /\ ui.pageMounted
    /\ Commit(Outcome(loc, ui, BeginMon(mon), resetAlarmState(Begin(alarm))),
              "none", NULL,
              IF alarm.isAlarmManuallyDisabled THEN "resetDisabled" ELSE "reset")

\* The setTimeout(..., 100) callback of playAlarmSound fires.
DelayedPlayFire(ok) ==
    /\ alarm.playTimers > 0
    /\ Commit(Outcome(loc, ui, BeginMon(mon), delayedPlay(Begin(alarm), ok)),
              hist.permStop, NULL, "timer")

\* unlockAudio resumes after its await: pause and rewind.
UnlockResume ==
    /\ alarm.unlockPending
    /\ Commit(Outcome(loc, ui, BeginMon(mon), unlockAudio(Begin(alarm))),
              hist.permStop, NULL, "timer")

(***************************************************************************)
(* The SpeedCalculator driven by fixes (SpeedSpec).                        *)
(* emit records what addLocation returned:                                 *)
(*   count: accepted fixes since construction or the last reset();         *)
(*   ret / retT: the value returned for the last accepted fix and the      *)
(*     timestamp of that fix; prev / prevT: the same for the one before;   *)
(*   mono: the timestamps of the accepted fixes since construction or the  *)
(*     last reset() were strictly increasing;                              *)
(*   path: "direct" or "derived", the path the last accepted fix took;     *)
(*   clock: the timestamp of the last fix; fixes: the fixes so far;        *)
(*   rejected: NULL, or what addLocation returned for the fix it has just  *)
(*     rejected;                                                           *)
(*   sensor: the sensor speed of the last accepted fix (NULL: undefined);  *)
(*   factor: NULL, or the argument of the setCalibrationFactor call that   *)
(*     has just returned.                                                  *)
(***************************************************************************)
FirstTimestamp == 1000
Positions == {0, 20}
TimeSteps == {0, 500, 1000}
SensorSpeeds == {NULL, 0, 100000}
Accuracies == {5, 20}
Lags == {0, 100}
Factors == {500, 800, 1200, 1500}

EmitInit ==
    [count |-> 0, ret |-> 0, retT |-> 0, prev |-> 0, prevT |-> 0,
     mono |-> TRUE, path |-> "none", clock |-> FirstTimestamp, fixes |-> 0,
     rejected |-> NULL, sensor |-> NULL, factor |-> NULL]

Emitted(e, r, location, path) ==
    [count |-> Min(e.count + 1, 2),
     ret |-> r.ret,
     retT |-> location.timestamp,
     prev |-> e.ret,
     prevT |-> e.retT,
     mono |-> e.mono /\ (e.count = 0 \/ location.timestamp > e.retT),
     path |-> path,
     clock |-> location.timestamp,
     fixes |-> e.fixes + 1,
     rejected |-> NULL,
     sensor |-> location.speed,
     factor |-> NULL]

PathOf(location) ==
    IF location.speed # NULL /\ location.speed >= 0
       /\ location.speed < MAX_SENSOR_SPEED
    THEN "direct" ELSE "derived"

\* The watch delivers a well-formed fix, lag ms before Date.now().
Deliver(location, lag) ==
    /\ calc' = addLocation(calc, location, location.timestamp + lag).c
    /\ emit' = Emitted(emit, addLocation(calc, location, location.timestamp + lag),
                       location, PathOf(location))
    /\ obs' = "fix"
    /\ UNCHANGED <<alarm, mon, loc, ui, now, hist, geo, nav>>

AddLocation(location, lag) ==
    /\ emit.fixes < MaxFixes
    /\ Deliver(location, lag)

\* The fixes addLocation rejects: no timestamp, or no coordinates; with or
\* without a sensor speed.
MalformedFixes(clock) ==
    {[pos |-> pos, timestamp |-> timestamp, accuracy |-> 5, speed |-> speed] :
        pos \in Positions \cup {NULL}, timestamp \in {0, clock + 500},
        speed \in {NULL, 100000}}
    \ {[pos |-> pos, timestamp |-> clock + 500, accuracy |-> 5, speed |-> speed] :
        pos \in Positions, speed \in {NULL, 100000}}

AddMalformedLocation(location) ==
    /\ emit.fixes < MaxFixes
    /\ calc' = addLocation(calc, location, emit.clock).c
    /\ emit' = [emit EXCEPT !.fixes = @ + 1,
                            !.rejected = addLocation(calc, location, emit.clock).ret,
                            !.factor = NULL]
    /\ obs' = "malformed"
    /\ UNCHANGED <<alarm, mon, loc, ui, now, hist, geo, nav>>

SetCalibrationFactor(factor) ==
    /\ calc' = setCalibrationFactor(calc, factor)
    /\ emit' = [emit EXCEPT !.factor = factor, !.rejected = NULL]
    /\ obs' = "calibrate"
    /\ UNCHANGED <<alarm, mon, loc, ui, now, hist, geo, nav>>

\* speedCalculator.reset(), as startLocationTracking calls it.
ResetCalculator ==
    /\ calc' = reset(calc)
    /\ emit' = [emit EXCEPT !.count = 0, !.ret = 0, !.retT = 0, !.prev = 0,
                            !.prevT = 0, !.mono = TRUE, !.path = "none",
                            !.rejected = NULL, !.factor = NULL]
    /\ obs' = "resetCalculator"
    /\ UNCHANGED <<alarm, mon, loc, ui, now, hist, geo, nav>>

SpeedNext ==
    \/ \E pos \in Positions, dt \in TimeSteps, speed \in SensorSpeeds,
          accuracy \in Accuracies, lag \in Lags :
           AddLocation([pos |-> pos, timestamp |-> emit.clock + dt,
                        accuracy |-> accuracy, speed |-> speed], lag)
    \/ \E location \in MalformedFixes(emit.clock) : AddMalformedLocation(location)
    \/ \E factor \in Factors : SetCalibrationFactor(factor)
    \/ ResetCalculator

\* The calculator driven by fixes whose sensor speed is absent, negative, in
\* range (on or off a tenth of a km/h) or too large, at accuracy 5 m.
WideSensorSpeeds == {NULL, -5000, 0, 12340, 100000, 200000}

SensorNext ==
    \/ \E pos \in Positions, dt \in TimeSteps, speed \in WideSensorSpeeds,
          lag \in Lags :
           AddLocation([pos |-> pos, timestamp |-> emit.clock + dt,
                        accuracy |-> 5, speed |-> speed], lag)
    \/ \E factor \in Factors : SetCalibrationFactor(factor)
    \/ ResetCalculator

\* The calculator driven long enough to fill both windows: a vehicle that
\* moves 10 m every 500 ms, each fix with or without a sensor speed.
WindowSensorSpeeds == {NULL, 100000}

AddLocationInWindow(speed) ==
    /\ emit.fixes < MaxWindowFixes
    /\ Deliver([pos |-> 10 * emit.fixes, timestamp |-> emit.clock + 500,
                accuracy |-> 5, speed |-> speed], 0)

WindowNext ==
    \/ \E speed \in WindowSensorSpeeds : AddLocationInWindow(speed)
    \/ ResetCalculator

\* The calculator driven through all of its public methods by fixes of
\* accuracy 5 m delivered on time, with or without a sensor speed, with or
\* without elapsed time, and by malformed fixes.
PlainNext ==
    \/ \E pos \in Positions, dt \in TimeSteps, speed \in SensorSpeeds :
           AddLocation([pos |-> pos, timestamp |-> emit.clock + dt,
                        accuracy |-> 5, speed |-> speed], 0)
    \/ \E location \in MalformedFixes(emit.clock) : AddMalformedLocation(location)
    \/ \E factor \in Factors : SetCalibrationFactor(factor)
    \/ ResetCalculator

\* The calculator driven by fixes whose timestamps go back, repeat or go
\* forward, with or without a sensor speed, delivered on time or late, with
\* the calibration set and reset() at any point.
OrderNext ==
    \/ \E pos \in Positions, dt \in {-500, 0, 500}, speed \in WindowSensorSpeeds,
          lag \in Lags :
           /\ emit.clock + dt > 0
           /\ AddLocation([pos |-> pos, timestamp |-> emit.clock + dt,
                           accuracy |-> 5, speed |-> speed], lag)
    \/ \E factor \in {800, 1200} : SetCalibrationFactor(factor)
    \/ ResetCalculator

(***************************************************************************)
(* NavigationContext.tsx (latest revision): the destination history.       *)
(* A destination is a record [latitude, longitude, named]: coordinates in  *)
(* units of 0.00001 degree, named: it has a name or an address.            *)
(* n holds the state and refs of NavigationProvider; stored is the value   *)
(* of the localStorage key; pending are the startNavigation calls waiting  *)
(* for their route, each with the destination, isSameDestination and the   *)
(* navigationHistory of the render the call was made from; done is the     *)
(* call whose continuation just ran, with the history it found. A ref or   *)
(* state that is null is the empty sequence, else a sequence of one value. *)
(***************************************************************************)
MAX_HISTORY_ITEMS == 5
COORDINATE_TOLERANCE == 10

NavInit ==
    [navigationHistory |-> <<>>,
     stored |-> <<>>,
     lastDestination |-> <<>>,
     destination |-> <<>>,
     isNavigating |-> FALSE,
     isLoadingRoute |-> FALSE,
     error |-> FALSE,
     routeUpdateInterval |-> FALSE,
     liveRouteIntervals |-> 0,
     pending |-> <<>>,
     done |-> <<>>]

isSameDestination(n, dest) ==
    /\ n.lastDestination # <<>>
    /\ Abs(n.lastDestination[1].latitude - dest.latitude)
           < COORDINATE_TOLERANCE
    /\ Abs(n.lastDestination[1].longitude - dest.longitude)
           < COORDINATE_TOLERANCE

\* [dest, ...navigationHistory.filter(...)].slice(0, MAX_HISTORY_ITEMS)
NewHistory(navigationHistory, dest) ==
    LET kept(item) == \/ item.latitude # dest.latitude
                      \/ item.longitude # dest.longitude
        all == <<dest>> \o SelectSeq(navigationHistory, kept)
    IN  SubSeq(all, 1, Min(Len(all), MAX_HISTORY_ITEMS))

\* startNavigation up to its await. hasLocation: currentLocation is not null.
startNavigation(n, dest, hasLocation) ==
    IF ~hasLocation
    THEN [n EXCEPT !.error = TRUE, !.isLoadingRoute = FALSE, !.done = <<>>]
    ELSE IF isSameDestination(n, dest) /\ n.isNavigating
    THEN [n EXCEPT !.isLoadingRoute = FALSE, !.done = <<>>]
    ELSE [n EXCEPT !.lastDestination = <<dest>>,
                   !.destination = <<dest>>,
                   !.isNavigating = TRUE,
                   !.isLoadingRoute = TRUE,
                   !.error = FALSE,
                   !.done = <<>>,
                   !.pending = Append(@, [dest |-> dest,
                                          isSameDestination |->
                                              isSameDestination(n, dest),
                                          navigationHistory |->
                                              n.navigationHistory])]

\* startNavigation after its await, for the pending call i. ok: whether
\* fetchAndSetRoute found a route (after its retries).
resumeNavigation(n, i, ok) ==
    LET call == n.pending[i]
        rest == [n EXCEPT !.pending = RemoveAt(@, i),
                          !.isLoadingRoute = FALSE,
                          !.done = <<[dest |-> call.dest, ok |-> ok,
                                      before |-> n.navigationHistory]>>]
    IN  IF ~ok
        THEN [rest EXCEPT !.error = TRUE]
        ELSE LET hist1 ==
                     IF ~call.isSameDestination /\ call.dest.named
                     THEN NewHistory(call.navigationHistory, call.dest)
                     ELSE n.navigationHistory
             IN  [rest EXCEPT !.navigationHistory = hist1,
                              !.stored = IF ~call.isSameDestination
                                            /\ call.dest.named
                                         THEN hist1 ELSE @,
                              !.routeUpdateInterval = TRUE,
                              !.liveRouteIntervals =
                                  IF n.routeUpdateInterval THEN @ ELSE @ + 1]

stopNavigation(n) ==
    [n EXCEPT !.isNavigating = FALSE,
              !.routeUpdateInterval = FALSE,
              !.liveRouteIntervals = IF n.routeUpdateInterval THEN @ - 1 ELSE @,
              !.done = <<>>]

clearNavigationHistory(n) ==
    [n EXCEPT !.navigationHistory = <<>>, !.stored = <<>>, !.done = <<>>]

\* A new NavigationProvider (page reload): the history is loaded from
\* localStorage, everything else starts from its initial value.
loadNavigationHistory(n) ==
    [NavInit EXCEPT !.navigationHistory = n.stored, !.stored = n.stored]

(***************************************************************************)
(* NavigationProvider driven through its functions.                        *)
(***************************************************************************)
NavStep(n, op) ==
    /\ nav' = n
    /\ obs' = op
    /\ UNCHANGED <<alarm, mon, loc, ui, now, hist, calc, emit, geo>>

StartNavigation(dest, hasLocation) ==
    /\ Len(nav.pending) < MaxPending
    /\ NavStep(startNavigation(nav, dest, hasLocation), "startNavigation")

RouteFetched(i, ok) ==
    /\ i \in 1..Len(nav.pending)
    /\ NavStep(resumeNavigation(nav, i, ok), "routeFetched")

StopNavigation == NavStep(stopNavigation(nav), "stopNavigation")

ClearNavigationHistory ==
    NavStep(clearNavigationHistory(nav), "clearNavigationHistory")

ReloadPage == NavStep(loadNavigationHistory(nav), "reload")

NavNext ==
    \/ \E latitude \in {0, 5, 100, 200, 300, 400}, named \in BOOLEAN,
          hasLocation \in BOOLEAN :
           /\ named \/ latitude = 0
           /\ StartNavigation([latitude |-> latitude, longitude |-> 0,
                               named |-> named], hasLocation)
    \/ \E i \in 1..MaxPending, ok \in BOOLEAN : RouteFetched(i, ok)
    \/ StopNavigation
    \/ ClearNavigationHistory
    \/ ReloadPage

(***************************************************************************)
(* The geometry functions of locationUtils applied to chosen arguments.    *)
(* geo records one application: op is "radius" or "distance" while the     *)
(* arguments wait, then the name of the function that was applied to them. *)
(***************************************************************************)
GeoInit ==
    [op |-> "none", userLocation |-> 0, collegeLocation |-> 0, radius |-> 0,
     near |-> FALSE,
     location1 |-> [latitude |-> 0, longitude |-> 0],
     location2 |-> [latitude |-> 0, longitude |-> 0],
     distance |-> 0]

GeoSpecInit ==
    /\ geo \in {[GeoInit EXCEPT !.op = "radius",
                                !.userLocation = userLocation,
                                !.collegeLocation = collegeLocation,
                                !.radius = radius] :
                    userLocation \in {-501, -500, -499, 0, 499, 500, 501, 1200},
                    collegeLocation \in {0, 700},
                    radius \in {0, 499, 500, 501}}
               \cup {[GeoInit EXCEPT !.op = "distance",
                                     !.location1 = location1,
                                     !.location2 = location2] :
                         location1, location2 \in
                             {[latitude |-> latitude, longitude |-> longitude] :
                                 latitude \in {-60, 0, 30, 90},
                                 longitude \in {-150, 0, 20, 180}}}
    /\ alarm = AlarmInit
    /\ mon = MonInit
    /\ loc = LocInit
    /\ ui = UiInit
    /\ now = StartTime
    /\ hist = HistInit
    /\ calc = CalcInit
    /\ emit = EmitInit
    /\ nav = NavInit
    /\ obs = "init"

IsWithinRadius ==
    /\ geo.op = "radius"
    /\ geo' = [geo EXCEPT !.op = "isWithinRadius",
                          !.near = isWithinRadius(geo.userLocation,
                                                  geo.collegeLocation,
                                                  geo.radius)]
    /\ obs' = "geo"
    /\ UNCHANGED <<alarm, mon, loc, ui, now, hist, calc, emit, nav>>

CalculateDistance ==
    /\ geo.op = "distance"
    /\ geo' = [geo EXCEPT !.op = "calculateDistance",
                          !.distance = Haversine(geo.location1, geo.location2)]
    /\ obs' = "geo"
    /\ UNCHANGED <<alarm, mon, loc, ui, now, hist, calc, emit, nav>>

GeoNext ==
    \/ IsWithinRadius
    \/ CalculateDistance

\* The alarm state machine driven through its exported functions, on a
\* device whose audio and vibration APIs may be missing or throw.
Devices ==
    {[AlarmInit EXCEPT !.hasAudio = hasAudio, !.canVibrate = canVibrate,
                       !.vibrateThrows = vibrateThrows,
                       !.pauseThrows = pauseThrows] :
        hasAudio \in BOOLEAN, canVibrate \in BOOLEAN,
        vibrateThrows \in BOOLEAN, pauseThrows \in BOOLEAN}

AlarmSpecInit ==
    /\ alarm \in Devices
    /\ mon = MonInit
    /\ loc = LocInit
    /\ ui = UiInit
    /\ now = StartTime
    /\ hist = HistInit
    /\ calc = CalcInit
    /\ emit = EmitInit
    /\ geo = GeoInit
    /\ nav = NavInit
    /\ obs = "init"

Call(a, op) == Commit(Outcome(loc, ui, BeginMon(mon), a), hist.permStop, NULL, op)

Trigger(ok) == Call(Play(Begin(alarm), ok, "call"), "trigger")

StopAlarm(permanently) == Call(Stop(Begin(alarm), permanently), "stop")

ResetAlarm == Call(resetAlarmState(Begin(alarm)), "reset")

Subscribe ==
    /\ Len(alarm.alarmListeners) = 0
    /\ Call(addAlarmListener(Begin(alarm), Listener), "subscribe")

Unsubscribe == Call(removeAlarmListener(Begin(alarm), Listener), "unsubscribe")

AlarmNext ==
    \/ \E ok \in BOOLEAN : Trigger(ok)
    \/ \E permanently \in BOOLEAN : StopAlarm(permanently)
    \/ ResetAlarm
    \/ Subscribe
    \/ Unsubscribe
    \/ \E ok \in BOOLEAN : DelayedPlayFire(ok)
    \/ UnlockResume

(***************************************************************************)
(* The alarm state machine with a subscribed callback that may call        *)
(* playAlarmSound, stopAlarmSound or resetAlarmState while it is notified. *)
(***************************************************************************)
ReentrantSpecInit ==
    /\ alarm = [AlarmInit EXCEPT !.alarmListeners = <<Reentrant>>]
    /\ mon = MonInit
    /\ loc = LocInit
    /\ ui = UiInit
    /\ now = StartTime
    /\ hist = HistInit
    /\ calc = CalcInit
    /\ emit = EmitInit
    /\ geo = GeoInit
    /\ nav = NavInit
    /\ obs = "init"

\* Calls of the exported functions during which the callback reacts with
\* the call named by reaction; a reaction the call did not use is dropped.
TriggerReacting(ok, reaction, reactionOk) ==
    /\ Call([Play([Begin(alarm) EXCEPT !.reaction = reaction,
                                       !.reactionOk = reactionOk], ok, "call")
                EXCEPT !.reaction = "none", !.reactionOk = FALSE], "trigger")
    /\ alarm'.liveIntervals <= MaxIntervals

StopReacting(permanently, reaction, reactionOk) ==
    /\ Call([Stop([Begin(alarm) EXCEPT !.reaction = reaction,
                                       !.reactionOk = reactionOk], permanently)
                EXCEPT !.reaction = "none", !.reactionOk = FALSE], "stop")
    /\ alarm'.liveIntervals <= MaxIntervals

ReentrantNext ==
    \/ \E ok \in BOOLEAN,
          reaction \in {"none", "stop", "stopPermanently", "reset", "play"},
          reactionOk \in BOOLEAN :
           TriggerReacting(ok, reaction, reactionOk)
    \/ \E permanently \in BOOLEAN,
          reaction \in {"none", "stop", "stopPermanently", "reset", "play"},
          reactionOk \in BOOLEAN :
           StopReacting(permanently, reaction, reactionOk)
    \/ ResetAlarm
    \/ \E ok \in BOOLEAN : DelayedPlayFire(ok)
    \/ UnlockResume

(***************************************************************************)
(* The preferences of notificationUtils on a device whose localStorage     *)
(* holds any value for them, written by the application or not.            *)
(***************************************************************************)
PrefsSpecInit ==
    /\ alarm \in {[AlarmInit EXCEPT !.storedIntensity = storedIntensity,
                                    !.storedMuted = storedMuted] :
                     storedIntensity \in
                         {<<>>, <<"0">>, <<"0.5">>, <<"1">>, <<"5">>, <<"-2">>,
                          <<"abc">>},
                     storedMuted \in {<<>>, <<"0">>, <<"1">>}}
    /\ mon = MonInit
    /\ loc = LocInit
    /\ ui = UiInit
    /\ now = StartTime
    /\ hist = HistInit
    /\ calc = CalcInit
    /\ emit = EmitInit
    /\ geo = GeoInit
    /\ nav = NavInit
    /\ obs = "init"

InitAlarmAudio(ok) == Call(initAlarmAudio(Begin(alarm), ok), "initAlarmAudio")

SetVibrationIntensity(intensity) ==
    Call(setVibrationIntensity(Begin(alarm), intensity), "setVibrationIntensity")

SetSoundMuted(muted, ok) ==
    Call(setSoundMuted(Begin(alarm), muted, ok), "setSoundMuted")

PrefsNext ==
    \/ \E ok \in BOOLEAN : InitAlarmAudio(ok)
    \/ \E intensity \in {-5, 0, 5, 10, 15, NAN} : SetVibrationIntensity(intensity)
    \/ \E muted \in BOOLEAN, ok \in BOOLEAN : SetSoundMuted(muted, ok)
    \/ \E ok \in BOOLEAN : Trigger(ok)
    \/ \E permanently \in BOOLEAN : StopAlarm(permanently)
    \/ \E ok \in BOOLEAN : DelayedPlayFire(ok)
    \/ UnlockResume

\* The outcomes of alarmAudio.play() a handler can meet when its only play()
\* is the one of initAlarmAudio, which runs only while alarmAudio is null.
InitOutcomes == IF alarm.alarmAudio THEN {FALSE} ELSE BOOLEAN

\* Tracking started and stopped by calls of startLocationTracking that may
\* overlap, with the SpeedCalculator fed by the fixes of every registered
\* watch. A fix carries in session the value of loc.starts at its delivery.
RequestTracking ==
    /\ loc.starts + loc.pendingStarts < MaxStarts
    /\ loc' = beginLocationTracking(loc)
    /\ obs' = "requestTracking"
    /\ UNCHANGED <<alarm, mon, ui, now, hist, calc, emit, geo, nav>>

\* getLocationPermission() settles for the oldest waiting call:
\* speedCalculator.reset(), then watchPosition.
ResumeTracking(granted) ==
    /\ loc.pendingStarts > 0
    /\ loc' = [resumeLocationTracking(loc, granted)
                  EXCEPT !.starts = IF granted THEN @ + 1 ELSE @]
    /\ calc' = IF granted THEN reset(calc) ELSE calc
    /\ emit' = IF granted
               THEN [emit EXCEPT !.count = 0, !.ret = 0, !.retT = 0, !.prev = 0,
                                 !.prevT = 0, !.mono = TRUE, !.path = "none",
                                 !.rejected = NULL, !.factor = NULL]
               ELSE emit
    /\ obs' = IF granted THEN "trackingStarted" ELSE "permissionDenied"
    /\ UNCHANGED <<alarm, mon, ui, now, hist, geo, nav>>

\* A registered watch delivers a fix: speedCalculator.addLocation.
WatchFix(pos, speed) ==
    /\ loc.watches > 0
    /\ AddLocation([pos |-> pos, timestamp |-> emit.clock + 500,
                    accuracy |-> 5, speed |-> speed, session |-> loc.starts], 0)

TrackNext ==
    \/ RequestTracking
    \/ \E granted \in BOOLEAN : ResumeTracking(granted)
    \/ \E pos \in Positions, speed \in WindowSensorSpeeds : WatchFix(pos, speed)
    \/ \E ok \in InitOutcomes : StopTracking(ok)

\* The tracking session followed for MaxTicks + 2 ticks of the clock: the
\* page is opened, tracking starts, fixes arrive, and the user may silence the
\* alarm for good.
EntryNext ==
    \/ \E ok \in BOOLEAN : MapPageMount(ok)
    \/ \E ok \in InitOutcomes : InitDone(ok)
    \/ \E ok \in InitOutcomes : StartTracking(ok)
    \/ \E d \in Distances, s \in Speeds, ok \in InitOutcomes : UpdateLocation(d, s, ok)
    \/ Tick
    \/ \E ok \in InitOutcomes : HandleStopAlarm(ok)
    \/ \E ok \in BOOLEAN : DelayedPlayFire(ok)
    \/ UnlockResume

Init ==
    /\ alarm = AlarmInit
    /\ mon = MonInit
    /\ loc = LocInit
    /\ ui = UiInit
    /\ now = StartTime
    /\ hist = HistInit
    /\ calc = CalcInit
    /\ emit = EmitInit
    /\ geo = GeoInit
    /\ nav = NavInit
    /\ obs = "init"

Next ==
    \/ \E ok \in BOOLEAN : MapPageMount(ok)
    \/ \E ok \in InitOutcomes : InitDone(ok)
    \/ \E ok \in InitOutcomes : LocationError(ok)
    \/ \E ok \in InitOutcomes : StartTracking(ok)
    \/ \E ok \in InitOutcomes : StopTracking(ok)
    \/ \E d \in Distances, s \in Speeds, ok \in InitOutcomes : UpdateLocation(d, s, ok)
    \/ Tick
    \/ \E ok \in InitOutcomes : HandleStop(ok)
    \/ \E ok \in InitOutcomes : HandleStopAlarm(ok)
    \/ \E ok \in InitOutcomes : ToggleSound(ok)
    \/ NavigateToCollege
    \/ \E ok \in BOOLEAN : DelayedPlayFire(ok)
    \/ UnlockResume

Spec == Init /\ [][Next]_vars

SpeedSpec == Init /\ [][SpeedNext]_vars

SensorSpec == Init /\ [][SensorNext]_vars

WindowSpec == Init /\ [][WindowNext]_vars

PlainSpec == Init /\ [][PlainNext]_vars

TrackSpec == Init /\ [][TrackNext]_vars

\* The application two ticks before the moment Init starts from.
EntryInit ==
    /\ alarm = AlarmInit
    /\ mon = MonInit
    /\ loc = LocInit
    /\ ui = UiInit
    /\ now = StartTime - 2 * TickMs
    /\ hist = HistInit
    /\ calc = CalcInit
    /\ emit = EmitInit
    /\ geo = GeoInit
    /\ nav = NavInit
    /\ obs = "init"

EntrySpec == EntryInit /\ [][EntryNext]_vars

OrderSpec == Init /\ [][OrderNext]_vars

AlarmSpec == AlarmSpecInit /\ [][AlarmNext]_vars

GeoSpec == GeoSpecInit /\ [][GeoNext]_vars

NavSpec == Init /\ [][NavNext]_vars

PrefsSpec == PrefsSpecInit /\ [][PrefsNext]_vars

ReentrantSpec == ReentrantSpecInit /\ [][ReentrantNext]_vars

(***************************************************************************)
(* Properties.                                                             *)
(***************************************************************************)
TrueNotes(a) == {i \in 1..Len(a.notes) : a.notes[i]}

C2_TriggerIdempotent ==
    /\ (alarm.plays >= 2 /\ alarm.stops = 0) => Cardinality(TrueNotes(alarm)) <= 1
    /\ \A ok1 \in BOOLEAN, ok2 \in BOOLEAN :
           /\ playAlarmSound(playAlarmSound(Begin(alarm), ok1), ok2)
                  = playAlarmSound(Begin(alarm), ok1)
           /\ alarm.isAlarmActive => playAlarmSound(alarm, ok1) = alarm
           /\ (~alarm.isAlarmActive /\ ~alarm.isAlarmManuallyDisabled
               /\ Len(alarm.alarmListeners) = 1)
                  => playAlarmSound(playAlarmSound(Begin(alarm), ok1), ok2).notes
                         = <<TRUE>>

\* C2 witness: a handler called playAlarmSound twice, with no stopAlarmSound,
\* and the listener received exactly one active=true.
C2_TwoTriggersOneNote ==
    /\ alarm.plays >= 2
    /\ alarm.stops = 0
    /\ alarm.notes = <<TRUE>>
    /\ alarm.isAlarmActive

\* C3: after the user pressed the STOP ALARM button of the speed-limit
\* monitor (handleStopAlarm, which calls stopAlarmSound(true)), and until the
\* next resetAlarmState(), the monitor does not make the alarm sound.
C3_NoMonitorAlarmAfterPermanentStop ==
    ~(hist.permStop # "none" /\ alarm.isAlarmActive /\ alarm.by = "monitor")

\* C4: when the monitor calls playAlarmSound, more than THRESHOLD_TIME_MS
\* have elapsed since the sample that set overspeedStart, and no sample
\* <= 0.95*SPEED_LIMIT was delivered to the monitor in between.
C4_TriggerOnlyAfterPersistentOverspeed ==
    mon.monPlay =>
        /\ mon.overspeedStart # NULL
        /\ now - mon.overspeedStart > THRESHOLD_TIME_MS
        /\ ~hist.lowSinceStart

\* C5: when the samples delivered to the monitor have stayed above
\* SPEED_LIMIT for more than THRESHOLD_TIME_MS, in a run that began with the
\* monitor untriggered and the alarm idle and not manually disabled, the
\* monitor has called playAlarmSound exactly once during that run.
C5_HeldOverspeedTriggersOnce ==
    (obs = "sample" /\ hist.heldSince # NULL
     /\ now - hist.heldSince > THRESHOLD_TIME_MS)
        => hist.heldTrig = 1

\* C6: a sample strictly between 0.95*SPEED_LIMIT (57.0) and SPEED_LIMIT
\* (60.0) delivered to the monitor leaves overspeedStart and
\* alarmTriggeredRef as they were, and the monitor calls neither
\* playAlarmSound nor stopAlarmSound.
C6_DeadZoneSampleChangesNothing ==
    [][(/\ obs' = "sample"
        /\ ui.viewMounted
        /\ loc'.speed * 100 > SPEED_LIMIT * 95
        /\ loc'.speed < SPEED_LIMIT)
       => (/\ mon'.overspeedStart = mon.overspeedStart
           /\ mon'.alarmTriggeredRef = mon.alarmTriggeredRef
           /\ ~mon'.monPlay
           /\ ~mon'.monStop)]_vars

\* C6 witness: a sample of 58.0 km/h was delivered after the monitor had
\* triggered, and alarmTriggeredRef is still set with the alarm sounding.
C6_DeadZoneAfterTrigger ==
    /\ obs = "sample"
    /\ ui.viewMounted
    /\ loc.speed = 580
    /\ mon.alarmTriggeredRef
    /\ mon.overspeedStart # NULL
    /\ alarm.isAlarmActive
    /\ alarm.by = "monitor"

\* C7: between two starts / stops of tracking (and resets of the alarm),
\* location fixes make the near-destination alarm sound at most once.
C7_ProximityAlarmAtMostOnce == hist.proxTrigs <= 1

\* C8: while the fixes have strictly increasing timestamps, every value
\* addLocation returns, except for the first fix, differs from the value it
\* returned before by at most MAX_ACCELERATION km/h per second elapsed
\* between the two fixes (up to the rounding of the two values to one
\* decimal), on either path and with any calibration factor.
C8_PhysicsConstraintOnReturnedSpeed ==
    (emit.count >= 2 /\ emit.mono)
        => Abs(emit.ret - emit.prev)
               <= MAX_ACCELERATION * (emit.retT - emit.prevT) + 100

\* C9: once the alarm has sounded and stopAlarmSound has returned, the alarm
\* audio is paused whenever the alarm is not active, whatever the order of
\* the handlers and of the setTimeout callbacks of playAlarmSound.
C9_AudioPausedWhileInactive ==
    (alarm.by # "none" /\ ~alarm.isAlarmActive) => alarm.paused

\* C10: resetAlarmState() called while the alarm is Disabled clears
\* isAlarmManuallyDisabled, leaves isAlarmActive, the listener list and the
\* vibration interval as they were, notifies no listener, and a
\* playAlarmSound that follows makes the alarm active.
C10_ResetFromDisabled ==
    [][(/\ obs' \in {"reset", "resetDisabled"}
        /\ alarm.isAlarmManuallyDisabled
        /\ ~alarm.isAlarmActive)
       => (/\ ~alarm'.isAlarmManuallyDisabled
           /\ ~alarm'.isAlarmActive
           /\ alarm'.alarmListeners = alarm.alarmListeners
           /\ alarm'.vibrationInterval = alarm.vibrationInterval
           /\ alarm'.liveIntervals = alarm.liveIntervals
           /\ alarm'.notes = <<>>
           /\ \A ok \in BOOLEAN : playAlarmSound(alarm', ok).isAlarmActive)]_vars

\* C10 witness: resetAlarmState() has just run on a Disabled alarm, with a
\* listener registered.
C10_AfterResetFromDisabled ==
    /\ obs = "resetDisabled"
    /\ hist.permStop = "none"
    /\ ~alarm.isAlarmManuallyDisabled
    /\ Len(alarm.alarmListeners) = 1

\* The values a listener subscribed during a whole handler must receive when
\* isAlarmActive was `before` at the start: the alternation of its changes.
Alternates(notes, before) ==
    \A i \in 1..Len(notes) : notes[i] = (IF i % 2 = 1 THEN ~before ELSE before)

C13_NoElapsedTimeReturnsPrevious ==
    (obs = "fix" /\ emit.count >= 2 /\ emit.retT <= emit.prevT)
        => emit.ret = emit.prev

\* The physics constraint as stated: raw limited to a change of
\* MAX_ACCELERATION km/h per second over elapsed ms from prior; prior itself
\* when no time has elapsed.
PhysicsLimit(raw, prior, elapsed) ==
    IF elapsed <= 0
    THEN prior
    ELSE Max(prior - MAX_ACCELERATION * elapsed,
             Min(prior + MAX_ACCELERATION * elapsed, raw))

\* C14: a fix whose sensor speed is in [0, 200) takes the direct path:
\* with a prior estimate (lastCalculatedSpeed > 0) addLocation returns
\* 0.7*sensor + 0.3*prior limited by the physics constraint over the time
\* elapsed since the last emission (up to the fix, or up to Date.now()),
\* without one it returns the sensor speed; a fix whose sensor speed is
\* absent, negative or >= 200 is appended to locationHistory and leaves
\* speedHistory without a sample of that fix.
C14_DirectPathBlend ==
    [][obs' = "fix"
       => IF emit'.sensor # NULL /\ emit'.sensor >= 0
             /\ emit'.sensor < MAX_SENSOR_SPEED
          THEN /\ calc'.locationHistory = calc.locationHistory
               /\ IF calc.lastCalculatedSpeed > 0
                  THEN \E lag \in Lags :
                         emit'.ret = RoundToTenth(PhysicsLimit(
                             (7 * emit'.sensor + 3 * calc.lastCalculatedSpeed)
                                 \div 10,
                             calc.lastCalculatedSpeed,
                             emit'.retT + lag - calc.lastTimestamp))
                  ELSE emit'.ret = RoundToTenth(emit'.sensor)
          ELSE /\ calc'.locationHistory # calc.locationHistory
               /\ Last(calc'.locationHistory).timestamp = emit'.retT
               /\ \A i \in 1..Len(calc'.speedHistory) :
                      calc'.speedHistory[i].speed # emit'.sensor
                      \/ emit'.sensor = NULL]_vars

\* C15: after addLocation has accepted a fix, getSpeed() is the value that
\* call returned, on the direct and on the derived path.
C15_GetSpeedIsLastReturned ==
    obs = "fix" => getSpeed(calc) = emit.ret

\* The fixes a calculator can be handed at time clock or later: well-formed
\* with any sensor speed, or malformed.
AnyFixes(clock) ==
    {[pos |-> pos, timestamp |-> clock + dt, accuracy |-> accuracy,
      speed |-> speed] :
        pos \in Positions, dt \in TimeSteps, accuracy \in Accuracies,
        speed \in WideSensorSpeeds}
    \cup MalformedFixes(clock)

\* C16: right after reset(), whatever fixes and calibrations came before,
\* addLocation returns for any single fix exactly what a newly constructed
\* SpeedCalculator returns for it.
C16_ResetThenFixAsFresh ==
    obs = "resetCalculator"
        => \A location \in AnyFixes(emit.clock), lag \in Lags :
               addLocation(calc, location, location.timestamp + lag).ret
                   = addLocation(CalcInit, location, location.timestamp + lag).ret

\* C16 witness: reset() was called on a calculator that had processed at
\* least two fixes and had been calibrated to 0.8.
C16_ResetAfterHistory ==
    /\ obs = "resetCalculator"
    /\ emit.fixes >= 2
    /\ emit.count = 0
    /\ emit.clock > FirstTimestamp
    /\ calc.calibrationFactor = 800

\* C17: after reset() the calculator is in the state of a new one: both
\* histories empty, lastCalculatedSpeed and lastTimestamp 0, getConfidence()
\* 0 and calibrationFactor back at 1.
C17_ResetClearsAllState ==
    obs = "resetCalculator"
        => (calc = CalcInit /\ getConfidence(calc) = 0)

\* C18: setCalibrationFactor(f) assigns calibrationFactor only when
\* 0.5 < f < 1.5 and otherwise (0.5 and 1.5 included) changes nothing, so
\* calibrationFactor is strictly between 0.5 and 1.5 in every state.
C18_CalibrationFactorInBand ==
    /\ [](calc.calibrationFactor > 500 /\ calc.calibrationFactor < 1500)
    /\ [][obs' = "calibrate"
          => IF emit'.factor > 500 /\ emit'.factor < 1500
             THEN calc' = [calc EXCEPT !.calibrationFactor = emit'.factor]
             ELSE calc' = calc]_vars

\* C18 witness: setCalibrationFactor(1.5) has just been rejected by a
\* calculator calibrated to 0.8 that holds history.
C18_BoundaryRejected ==
    /\ obs = "calibrate"
    /\ emit.factor = 1500
    /\ calc.calibrationFactor = 800
    /\ Len(calc.speedHistory) > 0

\* new is old with one entry appended at the end, the oldest entry of old
\* dropped when old was full: arrival order kept.
ShiftedAppend(old, new) ==
    /\ Len(new) = Min(WINDOW_SIZE, Len(old) + 1)
    /\ \A i \in 1..(Len(new) - 1) : new[i] = old[i + (Len(old) + 1 - Len(new))]

\* C19: locationHistory and speedHistory never hold more than WINDOW_SIZE
\* (8) entries; a fix that enters a history is appended at its end and,
\* when the history was full, the oldest entry is the one removed; a
\* derived-path fix that leaves fewer than 2 points in locationHistory
\* returns 0.
C19_BoundedWindows ==
    /\ [](Len(calc.locationHistory) <= WINDOW_SIZE
          /\ Len(calc.speedHistory) <= WINDOW_SIZE)
    /\ [][obs' = "fix"
          => /\ \/ calc'.locationHistory = calc.locationHistory
                \/ /\ ShiftedAppend(calc.locationHistory, calc'.locationHistory)
                   /\ Last(calc'.locationHistory).timestamp = emit'.retT
                   /\ Len(calc'.locationHistory) < 2 => emit'.ret = 0
             /\ \/ calc'.speedHistory = calc.speedHistory
                \/ /\ ShiftedAppend(calc.speedHistory, calc'.speedHistory)
                   /\ Last(calc'.speedHistory).timestamp = emit'.retT
             /\ \/ calc'.locationHistory # calc.locationHistory
                \/ calc'.speedHistory # calc.speedHistory]_vars

\* C19 witness: both histories are full and each has lost its oldest entry
\* (the fix at the first timestamp).
C19_BothWindowsOverflowed ==
    /\ obs = "fix"
    /\ Len(calc.locationHistory) = WINDOW_SIZE
    /\ Len(calc.speedHistory) = WINDOW_SIZE
    /\ calc.locationHistory[1].timestamp > FirstTimestamp + 500
    /\ calc.speedHistory[1].timestamp > FirstTimestamp + 1000

\* C20: whether the Audio constructor and navigator.vibrate exist, work or
\* throw, playAlarmSound called on an alarm that is neither active nor
\* manually disabled makes it active and notifies the listener, and
\* stopAlarmSound called on an active alarm makes it inactive, leaves no
\* vibration interval and notifies the listener.
C20_DeviceFailureNeverBlocks ==
    [][/\ (obs' = "trigger" /\ ~alarm.isAlarmActive
           /\ ~alarm.isAlarmManuallyDisabled)
            => /\ alarm'.isAlarmActive
               /\ Len(alarm.alarmListeners) > 0 => alarm'.notes = <<TRUE>>
       /\ (obs' = "stop" /\ alarm.isAlarmActive)
            => /\ ~alarm'.isAlarmActive
               /\ ~alarm'.vibrationInterval
               /\ alarm'.liveIntervals = 0
               /\ Len(alarm.alarmListeners) > 0 => alarm'.notes = <<FALSE>>]_vars

\* C20 witness: an alarm triggered on a device without audio, whose
\* vibration and pause calls throw, has been stopped and the listener told.
C20_StoppedOnFailingDevice ==
    /\ obs = "stop"
    /\ ~alarm.hasAudio
    /\ alarm.vibrateThrows
    /\ alarm.canVibrate
    /\ alarm.notes = <<FALSE>>
    /\ ~alarm.isAlarmActive
    /\ alarm.by = "call"

\* C21: in every state reached by stopLocationTracking the alarm is not
\* active and no vibration repeat timer is pending.
C21_StopTrackingSilencesAlarm ==
    (obs = "track" /\ ~loc.isTracking)
        => (~alarm.isAlarmActive /\ ~alarm.vibrationInterval)

\* C22: throttling never delays a proximity transition by more than the
\* throttle interval. A fix that is evaluated starts a throttle interval of
\* more than 2000 ms in which no fix is evaluated, so a fix that is evaluated
\* must leave isNearCollege equal to the nearness it shows.
C22_EvaluatedFixUpdatesIsNear ==
    [][\A d \in Distances, s \in Speeds, ok \in BOOLEAN :
          (/\ obs' = "sample"
           /\ loc'.lastProximityCheck # loc.lastProximityCheck
           /\ UpdateLocation(d, s, ok))
              => loc'.isNearCollege
                    = isWithinRadius(d, CollegeLocation, NOTIFICATION_RADIUS)]_vars

\* C23: isWithinRadius is true exactly when the fix is no farther from the
\* target than the radius, the boundary included (499 m and 500 m are near
\* with radius 500, 501 m is not), and a larger radius never turns a true
\* into a false.
C23_IsNearInclusiveAndMonotonic ==
    geo.op = "isWithinRadius"
        => /\ geo.near <=> (/\ geo.userLocation - geo.collegeLocation <= geo.radius
                            /\ geo.collegeLocation - geo.userLocation <= geo.radius)
           /\ \A radius \in {0, 499, 500, 501} :
                  (geo.near /\ radius >= geo.radius)
                      => isWithinRadius(geo.userLocation, geo.collegeLocation,
                                        radius)

\* C23 witness: a fix exactly 500 m from the target was found within the
\* radius of 500 m.
C23_OnTheBoundary ==
    /\ geo.op = "isWithinRadius"
    /\ geo.radius = NOTIFICATION_RADIUS
    /\ Abs(geo.userLocation - geo.collegeLocation) = NOTIFICATION_RADIUS
    /\ geo.near

C25_VibrationIntensityInRange ==
    alarm.vibrationIntensity \in 0..10

\* C26: the haversine distance between two identical points is 0, and the
\* distance from A to B equals the distance from B to A.
C26_DistanceZeroAndSymmetric ==
    geo.op = "calculateDistance"
        => /\ geo.distance = Haversine(geo.location2, geo.location1)
           /\ geo.location1 = geo.location2 => geo.distance = 0

\* C26 witness: a distance was computed between two points that differ in
\* latitude and in longitude, and it is not 0.
C26_DistantPoints ==
    /\ geo.op = "calculateDistance"
    /\ geo.location1.latitude # geo.location2.latitude
    /\ geo.location1.longitude # geo.location2.longitude
    /\ geo.distance > 0

\* C27: after any sequence of trigger(), stop() and reset() calls the alarm
\* is never both active and manually disabled.
C27_NeverActiveAndDisabled ==
    ~(alarm.isAlarmActive /\ alarm.isAlarmManuallyDisabled)

\* C27 witness: playAlarmSound was called on a manually disabled alarm and
\* left it inactive.
C27_TriggerOnDisabled ==
    /\ obs = "trigger"
    /\ alarm.plays = 1
    /\ alarm.isAlarmManuallyDisabled
    /\ ~alarm.isAlarmActive

\* C28: a pending vibration interval implies that the alarm is active, and
\* at most one vibration interval exists, after any sequence of calls, calls
\* made from inside a listener notification included.
C28_OneVibrationTimerWhileActive ==
    /\ alarm.vibrationInterval => alarm.isAlarmActive
    /\ alarm.liveIntervals <= 1

\* C29: when the speed monitor's effect calls stopAlarmSound() and the alarm
\* that was sounding falls silent, that alarm had been turned on by the
\* monitor's own playAlarmSound(), not by the proximity path.
C29_MonitorStopsOnlyItsOwnAlarm ==
    [][(mon'.monStop /\ alarm.isAlarmActive /\ ~alarm'.isAlarmActive)
          => alarm.by = "monitor"]_vars

C31_NotificationsAlternateFromTrue ==
    [][(Len(alarm'.alarmListeners) = 1)
          => Alternates(alarm'.notes,
                        IF Len(alarm.alarmListeners) = 1 /\ alarm.received # <<>>
                        THEN alarm.received[1]
                        ELSE FALSE)]_vars

\* C32: what addLocation returned for the last fix and what getSpeed returns
\* are numbers >= 0, whatever the order of the timestamps of the fixes and
\* whichever path each fix took.
C32_ReturnedSpeedNotNegative ==
    /\ emit.ret >= 0
    /\ getSpeed(calc) >= 0

\* C32 witness: a fix older than the fix before it took the derived path
\* after a fix on the direct path, and a speed above 0 was returned.
C32_OutOfOrderDerivedAfterDirect ==
    /\ obs = "fix"
    /\ emit.count = 2
    /\ emit.retT < emit.prevT
    /\ emit.path = "derived"
    /\ emit.prev > 0
    /\ emit.ret > 0

\* C33 witness: a fix has just set isNearCollege while the alarm was manually
\* disabled, and the proximity alert has not been shown.
C33_EnteredWhileDisabled ==
    /\ obs = "sample"
    /\ loc.isNearCollege
    /\ ~loc.hasShownProximityAlert
    /\ loc.lastProximityCheck = now
    /\ alarm.isAlarmManuallyDisabled
    /\ ~alarm.isAlarmActive

\* C33: a fix that turns isNearCollege from false to true while the alarm is
\* manually disabled leaves hasShownProximityAlert as it was and raises no
\* alarm: the alarm stays inactive and no proximity alarm is counted. After
\* such a fix, once resetAlarmState() has been called, the next fix inside
\* the radius that passes the throttle makes the proximity alarm sound.
C33_DisabledEntryKeepsOneShot ==
    /\ [][(/\ obs' = "sample"
           /\ alarm.isAlarmManuallyDisabled
           /\ ~loc.isNearCollege
           /\ loc'.isNearCollege)
             => (/\ loc'.hasShownProximityAlert = loc.hasShownProximityAlert
                 /\ ~alarm'.isAlarmActive
                 /\ alarm'.isAlarmManuallyDisabled
                 /\ hist'.proxTrigs = hist.proxTrigs)]_vars
    /\ [](C33_EnteredWhileDisabled
            => \A s \in Speeds, ok \in BOOLEAN :
                   /\ updateLocation(
                          loc, resetAlarmState(Begin(alarm)), NOTIFICATION_RADIUS,
                          s, now + PROXIMITY_THROTTLE_MS + 1, ok).a.isAlarmActive
                   /\ updateLocation(
                          loc, resetAlarmState(Begin(alarm)), NOTIFICATION_RADIUS,
                          s, now + PROXIMITY_THROTTLE_MS + 1, ok).a.by = "proximity")

\* C34: at most one geolocation watch is registered at any time, and none
\* is left registered while tracking is off (stopLocationTracking has
\* cleared every watch that startLocationTracking registered).
C34_AtMostOneWatch ==
    /\ loc.watches <= 1
    /\ ~loc.isTracking => loc.watches = 0

\* C35: at most one route-update interval is scheduled, and none is
\* scheduled while isNavigating is false, however the calls of
\* startNavigation, their route fetches and stopNavigation interleave.
C35_IntervalOnlyWhileNavigating ==
    /\ nav.liveRouteIntervals <= 1
    /\ ~nav.isNavigating => nav.liveRouteIntervals = 0

\* C36 (witness): tracking was started, fed a fix, stopped and started
\* again, and a speed segment has been computed from two fixes of the new
\* session.
C36_SegmentAfterRestart ==
    /\ loc.starts = 2
    /\ loc.watches = 1
    /\ loc.isTracking
    /\ emit.fixes = 3
    /\ Len(calc.locationHistory) = 2
    /\ emit.path = "derived"

\* C36: every start of tracking resets the SpeedCalculator before a fix of
\* the new session is added, so the fixes it holds, from which every speed
\* segment is computed, all belong to the session started last: none comes
\* from before the last start.
C36_HistoryOfOneSession ==
    /\ \A i \in 1..Len(calc.locationHistory) :
           calc.locationHistory[i].session = loc.starts
    /\ obs = "trackingStarted" => calc.locationHistory = <<>>

====
